---- MODULE Spec2Model ----
(***************************************************************************)
(* The three batch copy scripts of defi_api                                *)
(*   migrate_history_simple.py   (old DB   -> DB_WRITE, INSERT OR IGNORE)  *)
(*   sync_db_write_to_read.py    (DB_WRITE -> DB_READ,  INSERT OR REPLACE) *)
(*   sync_direct.py              (DB_WRITE -> DB_READ,  one INSERT OR      *)
(*                                REPLACE statement per row)               *)
(* as one state machine: a run of one script over a source table and a     *)
(* destination table, with the store calls (wrangler d1 execute) able to   *)
(* fail and an upstream writer able to add rows to the source meanwhile.   *)
(*                                                                         *)
(* A market_history row carries the three key columns and, of the value    *)
(* columns, min_price (standing for the fourteen nullable columns, which   *)
(* every script formats with one and the same expression) and volatility.  *)
(* Strings are sequences of one-character strings, so that quoting and the *)
(* store's reading of a quoted literal are computed, not assumed.          *)
(***************************************************************************)
EXTENDS Integers, Sequences, FiniteSets, TLC

Migrate == "migrate_history_simple"
SyncDb == "sync_db_write_to_read"
Direct == "sync_direct"
Scripts == {Migrate, SyncDb, Direct}

(* ---- bounds ---------------------------------------------------------- *)
\* most rows the source table ever holds
MaxSrc == 3
\* most rows the destination holds before the run
MaxSeed == 1
\* rows per page of migrate_history_simple and sync_db_write_to_read
BatchLarge == 2
\* rows per page of sync_direct
BatchSmall == 2

(* ---- program constants ----------------------------------------------- *)
START_TS(s) == IF s = Migrate THEN 1767348000 ELSE 1769640000
END_TS == 1767891600
BATCH_SIZE(s) == IF s = Direct THEN BatchSmall ELSE BatchLarge
\* the total used when the count could not be determined
UnknownTotal(s) == IF s = Direct THEN 0 ELSE 999999

(* ---- JSON / column values -------------------------------------------- *)
\* a nullable number: << >> is null (None / SQL NULL), <<n>> the number n
JNull == << >>
JNum(n) == << n >>
Numbers == 0 .. 2

Min(a, b) == IF a < b THEN a ELSE b

\* the hour buckets a row can belong to: one before the range, two inside
\* it, one after the range's end (migrate_history_simple alone has an end)
Buckets(s) ==
    IF s = Migrate
    THEN << START_TS(s) - 3600, START_TS(s), END_TS, END_TS + 3600 >>
    ELSE << START_TS(s) - 3600, START_TS(s), START_TS(s) + 3600, START_TS(s) + 7200 >>

Row(ex, sy, ts, mp, vol) ==
    [exchange |-> ex, symbol |-> sy, hour_timestamp |-> ts,
     min_price |-> mp, volatility |-> vol]

KeyOf(r) == << r.exchange, r.symbol, r.hour_timestamp >>
KeysOf(rows) == { KeyOf(r) : r \in rows }
UniqueKeys(rows) == \A r1, r2 \in rows : KeyOf(r1) = KeyOf(r2) => r1 = r2

\* the rows the upstream aggregation can have written to the source table
Universe(s) ==
    LET t == Buckets(s)
        a == << "a" >>
        b == << "b" >>
        sy == << "s" >>
    IN  { Row(a, << "t" >>, t[2], JNum(1), JNum(1)),
          Row(b, sy, t[2], JNum(1), JNum(1)),
          Row(a, sy, t[3], JNum(2), JNum(1)),
          Row(b, sy, t[3], JNull, JNull),
          Row(<< "a", "'" >>, sy, t[2], JNum(1), JNum(1)),
          Row(a, << "'", "'" >>, t[3], JNum(1), JNum(1)),
          Row(a, sy, t[1], JNum(1), JNum(1)),
          Row(a, sy, t[4], JNum(1), JNum(1)) }

\* the rows the destination can hold before the run
SeedRows(s) ==
    LET t == Buckets(s)
    IN  { Row(<< "b" >>, << "s" >>, t[2], JNum(2), JNum(0)),
          Row(<< "b" >>, << "t" >>, t[3], JNum(1), JNum(0)),
          Row(<< "a" >>, << "'", "'" >>, t[3], JNum(2), JNum(0)),
          Row(<< "a" >>, << "s" >>, t[1], JNum(2), JNum(0)) }

SubsetsUpTo(S, n) == { T \in SUBSET S : Cardinality(T) <= n }

(* ---- the read path: WHERE ... ORDER BY ... LIMIT ... OFFSET ---------- *)
InRange(s, r) ==
    /\ r.hour_timestamp >= START_TS(s)
    /\ s = Migrate => r.hour_timestamp <= END_TS

RowsInRange(s, rows) == { r \in rows : InRange(s, r) }

\* SELECT COUNT(*) ... WHERE <range>
CountInRange(s, rows) == Cardinality(RowsInRange(s, rows))

\* the byte values the store's BINARY collation compares
CharCode(c) ==
    CASE c = "'" -> 39
      [] c = "a" -> 97
      [] c = "b" -> 98
      [] c = "s" -> 115
      [] c = "t" -> 116

RECURSIVE TextLess(_, _)
TextLess(x, y) ==
    IF y = << >> THEN FALSE
    ELSE IF x = << >> THEN TRUE
    ELSE IF CharCode(Head(x)) # CharCode(Head(y))
         THEN CharCode(Head(x)) < CharCode(Head(y))
         ELSE TextLess(Tail(x), Tail(y))

\* ORDER BY hour_timestamp, exchange, symbol
RowLess(r1, r2) ==
    IF r1.hour_timestamp # r2.hour_timestamp
    THEN r1.hour_timestamp < r2.hour_timestamp
    ELSE IF r1.exchange # r2.exchange
         THEN TextLess(r1.exchange, r2.exchange)
         ELSE TextLess(r1.symbol, r2.symbol)

RECURSIVE OrderBy(_)
OrderBy(rows) ==
    IF rows = {} THEN << >>
    ELSE LET first == CHOOSE r \in rows : \A q \in rows \ {r} : RowLess(r, q)
         IN  << first >> \o OrderBy(rows \ {first})

\* variant of LimitOffset: a page one row longer than the limit
LimitOffset_overlap(seq, lim, off) ==
    SubSeq(seq, off + 1, Min(off + lim + 1, Len(seq)))

\* LIMIT lim OFFSET off
LimitOffset(seq, lim, off) == SubSeq(seq, off + 1, Min(off + lim, Len(seq)))

\* the select list: the two larger scripts COALESCE(volatility, 0),
\* sync_direct selects the columns as stored
SelectList(s, r) ==
    IF s = Direct THEN r
    ELSE [r EXCEPT !.volatility = IF r.volatility = JNull THEN JNum(0) ELSE @]

\* export_batch(offset) / the query of copy_batch(offset), when the store answers
PageAt(s, rows, off) ==
    LET page == LimitOffset(OrderBy(RowsInRange(s, rows)), BATCH_SIZE(s), off)
    IN  [i \in 1 .. Len(page) |-> SelectList(s, page[i])]

(* ---- the codec: a record to the literals of one VALUES tuple ---------- *)
\* r.get(f, default)
Get(r, f, default) == IF f \in DOMAIN r THEN r[f] ELSE default

\* str(val) of a decoded JSON value
Str(val) == IF val = JNull THEN "None" ELSE ToString(val[1])

\* value.replace("'", "''")
RECURSIVE EscapeQuotes(_)
EscapeQuotes(text) ==
    IF text = << >> THEN << >>
    ELSE (IF Head(text) = "'" THEN << "'", "'" >> ELSE << Head(text) >>)
         \o EscapeQuotes(Tail(text))

\* f"'{value}'"
Quoted(text) == << "'" >> \o text \o << "'" >>

\* fmt(val) of create_insert_sql
fmt(val) == IF val = JNull THEN "NULL" ELSE Str(val)

\* the literal a script writes for a key string
TextLiteral(s, text) ==
    IF s = Direct THEN Quoted(text) ELSE Quoted(EscapeQuotes(text))

\* the literal a script writes for a nullable value column
NullableLiteral(s, r, f) ==
    IF s = Direct
    THEN (IF f \in DOMAIN r THEN Str(r[f]) ELSE "NULL")
    ELSE fmt(Get(r, f, JNull))

\* the literal a script writes for volatility
VolatilityLiteral(s, r) ==
    IF s = Direct
    THEN Str(Get(r, "volatility", JNum(0)))
    ELSE fmt(Get(r, "volatility", JNum(0)))

\* one parenthesised tuple of literals
ValuesTuple(s, r) ==
    [exchange |-> TextLiteral(s, r.exchange),
     symbol |-> TextLiteral(s, r.symbol),
     hour_timestamp |-> ToString(r.hour_timestamp),
     min_price |-> NullableLiteral(s, r, "min_price"),
     volatility |-> VolatilityLiteral(s, r)]

\* variants of ConflictClause: a plain INSERT in migrate_history_simple,
\* and INSERT OR REPLACE in every script
ConflictClause_plain(s) == IF s = Migrate THEN "ABORT" ELSE "REPLACE"
ConflictClause_replace(s) == "REPLACE"

\* the conflict clause of the generated INSERT
ConflictClause(s) == IF s = Migrate THEN "IGNORE" ELSE "REPLACE"

\* the statements of one batch: one bulk INSERT with every tuple, or
\* (sync_direct) one INSERT per row
create_insert_sql(s, recs) ==
    IF s = Direct
    THEN [i \in 1 .. Len(recs) |->
            [conflict |-> ConflictClause(s), values |-> << ValuesTuple(s, recs[i]) >>]]
    ELSE << [conflict |-> ConflictClause(s),
             values |-> [i \in 1 .. Len(recs) |-> ValuesTuple(s, recs[i])]] >>

(* ---- the store's execution of the generated statements --------------- *)
Bad == [ok |-> FALSE, v |-> << >>]
Good(v) == [ok |-> TRUE, v |-> v]

\* the store reading a quoted string literal: '' inside is one quote, a
\* single quote ends the literal, and the literal must end the token
RECURSIVE ScanLiteral(_, _, _)
ScanLiteral(lit, i, acc) ==
    IF i > Len(lit) THEN Bad
    ELSE IF lit[i] = "'"
         THEN IF i < Len(lit) /\ lit[i + 1] = "'"
              THEN ScanLiteral(lit, i + 2, Append(acc, "'"))
              ELSE IF i = Len(lit) THEN Good(acc) ELSE Bad
         ELSE ScanLiteral(lit, i + 1, Append(acc, lit[i]))

ReadText(lit) ==
    IF Len(lit) < 2 \/ lit[1] # "'" THEN Bad ELSE ScanLiteral(lit, 2, << >>)

\* the integers a numeric literal of the model can denote
IntLiterals(s) == Numbers \cup { Buckets(s)[i] : i \in 1 .. 4 }

\* the store reading a numeric literal or NULL; any other word (None) is
\* an unknown identifier and fails the statement
ReadValue(s, tok) ==
    IF tok = "NULL" THEN Good(JNull)
    ELSE IF \E n \in IntLiterals(s) : ToString(n) = tok
         THEN Good(JNum(CHOOSE n \in IntLiterals(s) : ToString(n) = tok))
         ELSE Bad

ReadTuple(s, t) ==
    LET ex == ReadText(t.exchange)
        sy == ReadText(t.symbol)
        ts == ReadValue(s, t.hour_timestamp)
        mp == ReadValue(s, t.min_price)
        vol == ReadValue(s, t.volatility)
    IN  IF ex.ok /\ sy.ok /\ ts.ok /\ ts.v # JNull /\ mp.ok /\ vol.ok
        THEN Good(Row(ex.v, sy.v, ts.v[1], mp.v, vol.v))
        ELSE Bad

\* variant of InsertRow: REPLACE deletes the old row and inserts nothing
InsertRow_deletes(rows, new, conflict) ==
    LET clash == { r \in rows : KeyOf(r) = KeyOf(new) }
    IN  IF clash = {} THEN rows \cup {new}
        ELSE IF conflict = "REPLACE" THEN rows \ clash
        ELSE rows

\* the rows of a table after one row is inserted under a conflict clause
\* (the table's key is exchange, symbol, hour_timestamp)
InsertRow(rows, new, conflict) ==
    LET clash == { r \in rows : KeyOf(r) = KeyOf(new) }
    IN  IF clash = {} THEN rows \cup {new}
        ELSE IF conflict = "REPLACE" THEN (rows \ clash) \cup {new}
        ELSE rows

RECURSIVE InsertRows(_, _, _, _)
InsertRows(rows, news, conflict, i) ==
    IF i > Len(news) THEN rows
    ELSE InsertRows(InsertRow(rows, news[i], conflict), news, conflict, i + 1)

\* one INSERT statement: every tuple is applied, or (a literal the store
\* cannot read, a key conflict under plain INSERT) none is
ExecStatement(s, rows, st) ==
    LET read == [i \in 1 .. Len(st.values) |-> ReadTuple(s, st.values[i])]
        news == [i \in 1 .. Len(st.values) |-> read[i].v]
        clash(i) == \/ KeyOf(news[i]) \in KeysOf(rows)
                    \/ \E j \in 1 .. i - 1 : KeyOf(news[j]) = KeyOf(news[i])
    IN  IF \E i \in 1 .. Len(st.values) : ~read[i].ok
        THEN [ok |-> FALSE, rows |-> rows]
        ELSE IF st.conflict = "ABORT" /\ \E i \in 1 .. Len(st.values) : clash(i)
             THEN [ok |-> FALSE, rows |-> rows]
             ELSE [ok |-> TRUE, rows |-> InsertRows(rows, news, st.conflict, 1)]

\* the statements of a file run in order up to the first that fails:
\* n is the number of statements that ran, rows the table after them
RECURSIVE ExecFile(_, _, _, _)
ExecFile(s, rows, sql, i) ==
    IF i > Len(sql) THEN [n |-> Len(sql), rows |-> rows]
    ELSE LET res == ExecStatement(s, rows, sql[i])
         IN  IF res.ok THEN ExecFile(s, res.rows, sql, i + 1)
             ELSE [n |-> i - 1, rows |-> rows]

(* ---- the run ---------------------------------------------------------- *)
VARIABLES
    script,          \* which of the three scripts runs
    source,          \* the source table: a set of rows
    dest,            \* the destination table: a set of rows
    pc,              \* where the run is
    total,           \* the advisory total
    offset,          \* the paging offset
    batch_num,       \* the number of the batch in progress
    total_migrated,  \* total_migrated / total_synced / synced
    records,         \* the page just exported
    sql,             \* the statements generated for it
    exitCode,        \* << >> while running, <<code>> once the process ended
    dest0,           \* history: the destination before the run
    batches,         \* history: the sizes of the batches written
    faults,          \* history: the store calls that failed
    grew,            \* history: the source grew during the run
    clashed,         \* history: a written batch held a key the destination had
    fetched,         \* history: the records of the pages exported, in order
    exitReason       \* history: why the paging loop ended

vars == << script, source, dest, pc, total, offset, batch_num, total_migrated,
           records, sql, exitCode, dest0, batches, faults, grew, clashed,
           fetched, exitReason >>

stores == << source, dest >>
progress == << total, offset, batch_num, total_migrated, records, sql >>
history == << dest0, batches, faults, grew, clashed, fetched, exitReason >>

Init ==
    /\ script \in Scripts
    /\ source \in SubsetsUpTo(Universe(script), MaxSrc)
    /\ dest0 \in SubsetsUpTo(SeedRows(script), MaxSeed)
    /\ dest = dest0
    /\ pc = "FetchingTotal"
    /\ total = 0
    /\ offset = 0
    /\ batch_num = 1
    /\ total_migrated = 0
    /\ records = << >>
    /\ sql = << >>
    /\ exitCode = << >>
    /\ batches = << >>
    /\ faults = {}
    /\ grew = FALSE
    /\ clashed = FALSE
    /\ fetched = << >>
    /\ exitReason = "none"

\* variant of LoopContinues: the loop is left on an empty page only
LoopContinues_always(off, tot) == TRUE

\* while offset < total
LoopContinues(off, tot) == off < tot

\* variant of NextOffset: the offset advanced one row too far
NextOffset_skips(s, off) == off + BATCH_SIZE(s) + 1

\* offset += BATCH_SIZE
NextOffset(s, off) == off + BATCH_SIZE(s)

\* variant of Verdict: a strict comparison
Verdict_strict(new_count, written) ==
    IF new_count > written THEN "Succeeded" ELSE "MismatchWarning"

\* the comparison of the verification step
Verdict(new_count, written) ==
    IF new_count >= written THEN "Succeeded" ELSE "MismatchWarning"

\* variant of Accumulate: the rows the page could hold are counted
Accumulate_full(written, recs) == written + BatchLarge

\* total_migrated += len(records)
Accumulate(written, recs) == written + Len(recs)

\* the count query answers
FetchTotalOk ==
    /\ pc = "FetchingTotal"
    /\ total' = CountInRange(script, source)
    /\ pc' = "Paging"
    /\ UNCHANGED << script, stores, offset, batch_num, total_migrated, records,
                    sql, exitCode, history >>

\* the count query fails, or its output cannot be decoded
FetchTotalFail ==
    /\ pc = "FetchingTotal"
    /\ total' = UnknownTotal(script)
    /\ faults' = faults \cup {"total"}
    /\ pc' = "Paging"
    /\ UNCHANGED << script, stores, offset, batch_num, total_migrated, records,
                    sql, exitCode, dest0, fetched, batches, grew, clashed, exitReason >>

\* the loop condition is false
LoopExit ==
    /\ pc = "Paging"
    /\ ~LoopContinues(offset, total)
    /\ pc' = "Verifying"
    /\ exitReason' = "total"
    /\ UNCHANGED << script, stores, progress, exitCode, dest0, fetched, batches, faults,
                    grew, clashed >>

\* a page with rows is exported and its statements are generated
ExportOk ==
    /\ pc = "Paging"
    /\ LoopContinues(offset, total)
    /\ PageAt(script, source, offset) # << >>
    /\ records' = PageAt(script, source, offset)
    /\ sql' = create_insert_sql(script, records')
    /\ fetched' = fetched \o records'
    /\ pc' = "Writing"
    /\ UNCHANGED << script, stores, total, offset, batch_num, total_migrated,
                    exitCode, dest0, batches, faults, grew, clashed,
                    exitReason >>

\* the page is empty: "No more records, stopping."
ExportEmpty ==
    /\ pc = "Paging"
    /\ LoopContinues(offset, total)
    /\ PageAt(script, source, offset) = << >>
    /\ records' = << >>
    /\ pc' = "Verifying"
    /\ exitReason' = "empty"
    /\ UNCHANGED << script, stores, total, offset, batch_num, total_migrated,
                    sql, exitCode, dest0, fetched, batches, faults, grew, clashed >>

\* the page query fails, or its output cannot be decoded: export_batch
\* returns [], run_sql returns None, and the loop takes it for the end
ExportFail ==
    /\ pc = "Paging"
    /\ LoopContinues(offset, total)
    /\ records' = << >>
    /\ faults' = faults \cup {"export"}
    /\ pc' = "Verifying"
    /\ exitReason' = "export failed"
    /\ UNCHANGED << script, stores, total, offset, batch_num, total_migrated,
                    sql, exitCode, dest0, fetched, batches, grew, clashed >>

\* some record of the page has a key the destination holds with other values
Clashes(s, rows, recs) ==
    \E i \in 1 .. Len(recs) : \E r \in rows :
        KeyOf(r) = KeyOf(recs[i]) /\ r # recs[i]

\* the file of statements runs to its end
WriteOk ==
    /\ pc = "Writing"
    /\ ExecFile(script, dest, sql, 1).n = Len(sql)
    /\ dest' = ExecFile(script, dest, sql, 1).rows
    /\ total_migrated' = Accumulate(total_migrated, records)
    /\ offset' = NextOffset(script, offset)
    /\ batch_num' = batch_num + 1
    /\ batches' = Append(batches, Len(records))
    /\ clashed' = (clashed \/ Clashes(script, dest, records))
    /\ pc' = "Paging"
    /\ UNCHANGED << script, source, total, records, sql, exitCode, dest0, fetched,
                    faults, grew, exitReason >>

\* the execution of the file fails: at a statement the store rejects, or
\* (the transport failing) before any statement that would have run.
\* The statements before it that ran are kept or rolled back as the store
\* tooling decides, so j ranges over both; a single bulk statement leaves
\* j = 0 only.  The two larger scripts exit with status 1, sync_direct's
\* copy_batch returns 0 and its loop takes that for "No more data".
WriteFail ==
    /\ pc = "Writing"
    /\ \E j \in 0 .. Len(sql) - 1 :
          /\ j = 0 \/ j <= ExecFile(script, dest, sql, 1).n
          /\ dest' = ExecFile(script, dest, SubSeq(sql, 1, j), 1).rows
    /\ faults' = faults \cup {"write"}
    /\ IF script = Direct
       THEN /\ pc' = "Verifying"
            /\ exitReason' = "write failed"
            /\ exitCode' = exitCode
       ELSE /\ pc' = "Failed"
            /\ exitReason' = exitReason
            /\ exitCode' = << 1 >>
    /\ UNCHANGED << script, source, progress, dest0, fetched, batches, grew, clashed >>

\* the verification count answers
VerifyOk ==
    /\ pc = "Verifying"
    /\ pc' = Verdict(CountInRange(script, dest), total_migrated)
    /\ exitCode' = << 0 >>
    /\ UNCHANGED << script, stores, progress, history >>

\* the verification count fails: the two larger scripts print no verdict,
\* sync_direct compares 0 with the written count
VerifyFail ==
    /\ pc = "Verifying"
    /\ pc' = IF script = Direct THEN Verdict(0, total_migrated) ELSE "Unverified"
    /\ faults' = faults \cup {"verify"}
    /\ exitCode' = << 0 >>
    /\ UNCHANGED << script, stores, progress, dest0, fetched, batches, grew, clashed,
                    exitReason >>

\* the upstream aggregation adds a row to the source between two reads of
\* it (a row added before the count is a larger initial source, one added
\* while a batch is written is read no earlier than one added after the
\* write, and one added after the loop is never read)
UpstreamInsert ==
    /\ pc = "Paging"
    /\ Cardinality(source) < MaxSrc
    /\ \E r \in Universe(script) :
          /\ KeyOf(r) \notin KeysOf(source)
          /\ source' = source \cup {r}
    /\ grew' = TRUE
    /\ UNCHANGED << script, dest, pc, progress, exitCode, dest0, fetched, batches,
                    faults, clashed, exitReason >>

Next ==
    \/ FetchTotalOk
    \/ FetchTotalFail
    \/ LoopExit
    \/ ExportOk
    \/ ExportEmpty
    \/ ExportFail
    \/ WriteOk
    \/ WriteFail
    \/ VerifyOk
    \/ VerifyFail
    \/ UpstreamInsert

Spec == Init /\ [][Next]_vars

\* the steps of the script itself: main() is sequential code, so whenever
\* the store call it waits for returns, its next step is taken
RunStep ==
    \/ FetchTotalFail
    \/ LoopExit
    \/ ExportFail
    \/ VerifyFail
    \/ WriteFail
    \/ FetchTotalOk
    \/ ExportOk
    \/ ExportEmpty
    \/ WriteOk
    \/ VerifyOk

\* every store call returns; the upstream writer is under no obligation
FairSpec == Spec /\ WF_vars(RunStep)

Terminal == pc \in {"Succeeded", "MismatchWarning", "Unverified", "Failed"}

TypeOK ==
    /\ script \in Scripts
    /\ source \subseteq Universe(script)
    /\ UniqueKeys(source)
    /\ pc \in {"FetchingTotal", "Paging", "Writing", "Verifying", "Succeeded",
               "MismatchWarning", "Unverified", "Failed"}
    /\ offset \in Nat
    /\ total_migrated \in Nat
    /\ exitCode \in {<< >>, << 0 >>, << 1 >>}
    /\ (exitCode # << >>) <=> Terminal

(* ---- properties -------------------------------------------------------- *)
\* the tuples of a batch's statements, in order
RECURSIVE TuplesOf(_)
TuplesOf(stmts) ==
    IF stmts = << >> THEN << >> ELSE Head(stmts).values \o TuplesOf(Tail(stmts))

\* the source row a fetched record was read from
SourceRowOf(rec) == CHOOSE r \in source : KeyOf(r) = KeyOf(rec)

\* C1: whenever a batch write has failed, the run is in Failed with exit
\* status 1 (Failed is terminal: nothing is fetched, written, retried or
\* verified after it).
C1_AbortOnWriteFailure ==
    "write" \in faults => pc = "Failed" /\ exitCode = << 1 >>

\* C2: whenever a page fetch has failed, the run is in Failed with exit
\* status 1; it is not in verification or in a verdict of success.
C2_FetchFailureIsAnError ==
    "export" \in faults => pc = "Failed" /\ exitCode = << 1 >>

\* C3: the paging loop never ends on the advisory total while the source
\* still has in-range rows at the current offset.
C3_HaltsOnlyOnEmptyPage ==
    (pc = "Verifying" /\ exitReason = "total")
        => PageAt(script, source, offset) = << >>

\* C4: a step in which a batch write fails leaves the destination as it
\* was: none of the failed batch's rows is applied.
C4_FailedBatchAppliesNothing ==
    [][("write" \in faults' /\ "write" \notin faults) => dest' = dest]_vars

\* the step is a batch write that succeeded
WriteSucceeds == pc = "Writing" /\ batches' # batches

\* C5: a run of migrate_history_simple or sync_db_write_to_read over a
\* static source of N in-range rows, into an empty destination and with no
\* store call failing, ends having written ceil(N/B) batches of sizes
\* B, ..., B, N - B*(ceil(N/B) - 1), with a written count of N, the
\* destination holding exactly the source's in-range keys, and the verdict
\* Succeeded.
C5_StaticRunCopiesAll ==
    (Terminal /\ script \in {Migrate, SyncDb} /\ dest0 = {} /\ ~grew /\ faults = {})
        => LET N == CountInRange(script, source)
               B == BATCH_SIZE(script)
               k == (N + B - 1) \div B
           IN  /\ Len(batches) = k
               /\ \A i \in 1 .. k :
                     batches[i] = IF i < k THEN B ELSE N - B * (k - 1)
               /\ total_migrated = N
               /\ KeysOf(dest) = KeysOf(RowsInRange(script, source))
               /\ pc = "Succeeded"
               /\ exitCode = << 0 >>

\* such a run has ended after more than one batch, the last one short
C5_Witness ==
    /\ Terminal /\ script = Migrate /\ dest0 = {} /\ ~grew /\ faults = {}
    /\ Len(batches) >= 2
    /\ batches[Len(batches)] < BATCH_SIZE(script)

\* C6: under INSERT OR IGNORE the destination never holds two rows with one
\* key, and executing a batch's statement a second time succeeds and
\* leaves the destination exactly as the first execution left it.
C6_IdempotentInsertIfAbsent ==
    script = Migrate =>
        /\ UniqueKeys(dest)
        /\ pc = "Writing" =>
              LET once == ExecFile(script, dest, sql, 1)
                  twice == ExecFile(script, once.rows, sql, 1)
              IN  once.n = Len(sql) =>
                     /\ twice.n = Len(sql)
                     /\ twice.rows = once.rows
                     /\ Cardinality(twice.rows) = Cardinality(once.rows)
                     /\ UniqueKeys(twice.rows)

\* a batch is about to be written that holds both a key the destination
\* has and a key it lacks
C6_Witness ==
    /\ script = Migrate /\ pc = "Writing"
    /\ \E i \in 1 .. Len(records) : KeyOf(records[i]) \in KeysOf(dest)
    /\ \E i \in 1 .. Len(records) : KeyOf(records[i]) \notin KeysOf(dest)

\* C7: after a batch is written under INSERT OR REPLACE, every record of it
\* whose key the destination held is the destination's one row for that key.
C7_ReplaceOverwrites ==
    [][(WriteSucceeds /\ script \in {SyncDb, Direct})
          => \A i \in 1 .. Len(records) :
                KeyOf(records[i]) \in KeysOf(dest)
                   => /\ records[i] \in dest'
                      /\ \A r \in dest' :
                            KeyOf(r) = KeyOf(records[i]) => r = records[i]]_vars

\* C8: a batch of migrate_history_simple is never rejected for a key the
\* destination holds, and writing it leaves every row the destination held
\* as it was and adds exactly the records whose keys were absent.
C8_FirstWriterWins ==
    [][(pc = "Writing" /\ script = Migrate)
          => /\ ExecFile(script, dest, sql, 1).n = Len(sql)
             /\ WriteSucceeds
                   => /\ dest \subseteq dest'
                      /\ dest' \ dest =
                            { records[i] : i \in
                                { j \in 1 .. Len(records) :
                                    KeyOf(records[j]) \notin KeysOf(dest) } }]_vars

\* migrate_history_simple has written a batch holding a key that the
\* destination held with other values
C8_Witness ==
    script = Migrate /\ clashed /\ batches # << >>

\* C9: the literals generated for a record are 0 for a null volatility,
\* NULL for a null min_price, and the number itself otherwise.
C9_NullNormalization ==
    pc = "Writing" =>
        /\ Len(TuplesOf(sql)) = Len(records)
        /\ \A i \in 1 .. Len(records) :
              LET row == SourceRowOf(records[i])
                  t == TuplesOf(sql)[i]
              IN  /\ t.volatility =
                        IF row.volatility = JNull THEN "0"
                        ELSE ToString(row.volatility[1])
                  /\ t.min_price =
                        IF row.min_price = JNull THEN "NULL"
                        ELSE ToString(row.min_price[1])

KeysIn(recs) == { KeyOf(recs[i]) : i \in 1 .. Len(recs) }

\* C11: a run whose only failed store call is the count query, over a
\* static source, ends its paging on an empty page whenever the source has
\* in-range rows, and has by then copied every in-range source key.
C11_UnknownTotalStillCopies ==
    (faults = {"total"} /\ pc = "Verifying" /\ ~grew)
        => /\ RowsInRange(script, source) # {} => exitReason = "empty"
           /\ KeysOf(RowsInRange(script, source)) \subseteq KeysOf(dest)

\* the same query without LIMIT and OFFSET
Unpaged(s, rows) ==
    LET all == OrderBy(RowsInRange(s, rows))
    IN  [i \in 1 .. Len(all) |-> SelectList(s, all[i])]

\* the pages at off, off + B, ... up to the first empty one, concatenated
RECURSIVE PagesFrom(_, _, _)
PagesFrom(s, rows, off) ==
    LET page == PageAt(s, rows, off)
    IN  IF page = << >> THEN << >>
        ELSE page \o PagesFrom(s, rows, NextOffset(s, off))

\* the paging loop has ended, over a static source, on an empty page or
\* on a total that was counted
PagedThrough ==
    /\ pc = "Verifying" /\ ~grew
    /\ exitReason = "empty" \/ (exitReason = "total" /\ "total" \notin faults)

\* C12: over the source as it stands, the pages at 0, B, 2B, ... up to the
\* first empty one concatenate to the unpaged ordered query; and a run that
\* paged through a static source has fetched exactly that sequence.
C12_PagesConcatenateToUnpaged ==
    /\ PagesFrom(script, source, 0) = Unpaged(script, source)
    /\ PagedThrough => fetched = Unpaged(script, source)

\* a run has paged through a static source in more than one page
C12_Witness ==
    /\ PagedThrough
    /\ Len(fetched) > BATCH_SIZE(script)
    /\ fetched = Unpaged(script, source)

\* C13: no step of the run changes the source table (only the upstream
\* writer does, and it only adds rows), and every key the destination
\* holds before a step it holds after it.
C13_NothingDeletedSourceUntouched ==
    [][/\ pc' # pc => source' = source
       /\ source \subseteq source'
       /\ KeysOf(dest) \subseteq KeysOf(dest')]_vars

\* sync_db_write_to_read has replaced a row of the destination while the
\* source was growing
C13_Witness ==
    script = SyncDb /\ clashed /\ grew /\ dest # dest0

\* C14: the store reads each generated exchange and symbol literal back
\* as exactly the value of the record it was generated from.
C14_QuotedTextRoundTrips ==
    pc = "Writing" =>
        /\ Len(TuplesOf(sql)) = Len(records)
        /\ \A i \in 1 .. Len(records) :
              /\ ReadText(TuplesOf(sql)[i].exchange) = Good(records[i].exchange)
              /\ ReadText(TuplesOf(sql)[i].symbol) = Good(records[i].symbol)

\* some row was exported in two pages
FetchedTwice ==
    \E i, j \in 1 .. Len(fetched) :
        i < j /\ KeyOf(fetched[i]) = KeyOf(fetched[j])

\* the loop ended on an empty page while an in-range row, in the source
\* when that page was read, was exported in no page
NeverFetched ==
    /\ pc = "Verifying" /\ exitReason = "empty"
    /\ \E r \in RowsInRange(script, source) : KeyOf(r) \notin KeysIn(fetched)

\* C15: a row is exported twice, or left out by a run that paged to an
\* empty page, only when the upstream writer added a row during the run
\* (C15_Witness is the interleaving in which it happens).
C15_SkipOrRepeatOnlyWhenSourceGrew ==
    (FetchedTwice \/ NeverFetched) => grew

\* sync_db_write_to_read has exported one row twice and another never: a
\* row was inserted before rows already scanned
C15_Witness ==
    script = SyncDb /\ grew /\ FetchedTwice /\ NeverFetched

\* C16: the offset is always B times the number of batches written; a step
\* never lowers it and changes it only by +B, in the step of a successful
\* write, which always advances it; and a page is exported only when every
\* page exported before it has been written.
C16_OffsetDiscipline ==
    [][/\ offset = BATCH_SIZE(script) * Len(batches)
       /\ offset' >= offset
       /\ offset' # offset <=> WriteSucceeds
       /\ WriteSucceeds => offset' = offset + BATCH_SIZE(script)
       /\ fetched' # fetched
             => /\ pc = "Paging"
                /\ Len(fetched) <= offset
                /\ fetched' = fetched \o PageAt(script, source, offset)]_vars

\* the second batch failed to write after the first was written: the
\* offset is still one batch
C16_Witness ==
    /\ "write" \in faults
    /\ Len(batches) = 1
    /\ offset = BATCH_SIZE(script)
    /\ Len(fetched) > BATCH_SIZE(script)

StaticAndHealthy ==
    /\ ~grew
    /\ "write" \notin faults
    /\ "verify" \notin faults

\* C18: over a static source whose writes all succeed, the destination's
\* in-range count is never below the written count, whatever the
\* destination held at the start and whichever write mode is used, and a
\* run whose verification count also succeeds ends in Succeeded.
C18_NoSpuriousMismatch ==
    /\ (~grew /\ "write" \notin faults)
          => CountInRange(script, dest) >= total_migrated
    /\ (Terminal /\ StaticAndHealthy) => pc = "Succeeded"

\* such a run has ended after two batches, one of which met a key the
\* destination already held with other values
C18_Witness ==
    /\ pc = "Succeeded"
    /\ StaticAndHealthy
    /\ faults = {}
    /\ dest0 # {}
    /\ clashed
    /\ Len(batches) >= 2
    /\ CountInRange(script, dest) = total_migrated

\* the sum of a sequence of numbers
RECURSIVE Sum(_)
Sum(seq) == IF seq = << >> THEN 0 ELSE Head(seq) + Sum(Tail(seq))

\* C19: the written count is the sum of the lengths of the pages whose
\* write succeeded, whether their rows were inserted, skipped or replaced;
\* it is at most offset + B; no step lowers it, and only the step of a
\* successful write changes it, by the length of the page written.
C19_WrittenCountIsRowsSubmitted ==
    [][/\ total_migrated = Sum(batches)
       /\ total_migrated <= offset + BATCH_SIZE(script)
       /\ total_migrated' >= total_migrated
       /\ WriteSucceeds => total_migrated' = total_migrated + Len(records)
       /\ ~WriteSucceeds => total_migrated' = total_migrated]_vars

\* rows the destination already held were submitted and counted: the
\* written count exceeds the number of rows the run added
C19_Witness ==
    /\ pc = "Paging"
    /\ total_migrated > Cardinality(dest) - Cardinality(dest0)
    /\ total_migrated = Len(fetched)
    /\ Len(batches) >= 1

====
